---- MODULE Spec2Model ----
(***************************************************************************)
(* Model of lucianoq/ringbuffer (ringbuffer.go): a byte buffer that grows  *)
(* like a dynamic array up to maxSize and then overwrites like a ring.     *)
(*                                                                         *)
(* A RingBuffer is a record [buf, pos, written, ringMode, maxSize].  buf   *)
(* is the Go slice r.buf; every slice the code stores there comes from     *)
(* make([]byte, n) or make([]byte, n, n), so len(r.buf) = cap(r.buf) and   *)
(* one sequence stands for both.  Go index k is TLA+ index k+1.            *)
(* Sizes stay far below the width of a Go int, except in SpecGrowLoop.     *)
(***************************************************************************)
EXTENDS Integers, Sequences, FiniteSets, TLC

VARIABLES r, twin, hist, last, maxSize0, initial0, closed, wasReset,
          onlyOnes, i, snap, frame

vars == <<r, twin, hist, last, maxSize0, initial0, closed, wasReset,
          onlyOnes, i, snap, frame>>

\* ------------------------------------------------------------- bounds ----
\* largest maxSize handed to NewRingBuffer
MaxSize == 3
\* largest number of bytes written between two Resets
MaxWritten == 4
\* largest maxSize of the single-byte growth runs, and their length
MaxGrowthSize == 12
MaxGrowthWrites == 14
\* largest maxSize of the README runs
MaxReadmeSize == 24
\* largest maxSize of the growth-schedule runs
MaxScheduleSize == 8
\* largest maxSize of the runs that keep a slice returned by Bytes()
MaxAliasSize == 2
\* width in bits of the int of the runs that execute Grow's loop step by
\* step (a Go int has 64), and their largest maxSize
IntBits == 5
MaxLoopSize == 3

\* ---------------------------------------------------- program constants --
expansionFactor == 2
\* README example: NewRingBuffer(0, 21), 20 iterations
ReadmeMaxSize == 21
ReadmeLoops == 20

\* bytes a caller writes; 0 is the zero byte make() fills new slices with
Alphabet == {97, 98}

\* ------------------------------------------------------ slice helpers ----
Min(a, b) == IF a < b THEN a ELSE b

\* s[n:]
SliceFrom(s, n) == SubSeq(s, n + 1, Len(s))

\* s[:n]
SliceTo(s, n) == SubSeq(s, 1, n)

\* the value copy(dst[off:], src) returns
copyN(dst, off, src) == Min(Len(dst) - off, Len(src))

\* dst after copy(dst[off:], src)
copyAt(dst, off, src) ==
    [k \in 1..Len(dst) |->
        IF k > off /\ k <= off + Len(src) THEN src[k - off] ELSE dst[k]]

\* makeSlice(n): ok says whether the allocation succeeds; make panics on a
\* negative length and the deferred recover turns the panic into an error
makeSlice(n, ok) ==
    IF ok /\ n >= 0
    THEN [b |-> [k \in 1..n |-> 0], err |-> FALSE]
    ELSE [b |-> <<>>, err |-> TRUE]

\* ---------------------------------------------------------- RingBuffer ---
\* NewRingBuffer without the clamp of initialSize
NewRingBuffer_noClamp(initialSize, maxSize) ==
    [buf      |-> [k \in 1..initialSize |-> 0],
     written  |-> 0,
     ringMode |-> FALSE,
     pos      |-> 0,
     maxSize  |-> maxSize]

NewRingBuffer(initialSize, maxSize) ==
    [buf      |-> [k \in 1..Min(initialSize, maxSize) |-> 0],
     written  |-> 0,
     ringMode |-> FALSE,
     pos      |-> 0,
     maxSize  |-> maxSize]

Cap(rb) == Len(rb.buf)

Written(rb) == rb.written

\* Close that forgets r.maxSize = 0
Close_keepsMax(rb) ==
    [buf |-> <<>>, pos |-> 0, ringMode |-> FALSE, written |-> 0,
     maxSize |-> rb.maxSize]

\* Close that forgets r.pos = 0
Close_keepsPos(rb) ==
    [buf |-> <<>>, pos |-> rb.pos, ringMode |-> FALSE, written |-> 0,
     maxSize |-> 0]

Close(rb) ==
    [buf |-> <<>>, pos |-> 0, ringMode |-> FALSE, written |-> 0, maxSize |-> 0]

\* Reset that forgets r.ringMode = false
Reset_keepsMode(rb) ==
    [rb EXCEPT !.written = 0, !.pos = 0]

\* Reset that forgets r.pos = 0
Reset_keepsPos(rb) ==
    [rb EXCEPT !.written = 0, !.ringMode = FALSE]

Reset(rb) ==
    [rb EXCEPT !.written = 0, !.ringMode = FALSE, !.pos = 0]

Bytes(rb) ==
    IF rb.ringMode
    THEN SliceFrom(rb.buf, rb.pos) \o SliceTo(rb.buf, rb.pos)
    ELSE SliceTo(rb.buf, rb.pos)

\* whether the slice Bytes() returns shares the backing array of r.buf:
\* r.buf[:r.pos] always does; append(r.buf[r.pos:], r.buf[:r.pos]...) has
\* no spare capacity (len(r.buf) = cap(r.buf)), so it allocates when it
\* appends r.pos > 0 bytes and returns r.buf[0:] itself when r.pos = 0
BytesShares(rb) == ~rb.ringMode \/ rb.pos = 0

\* for newSize < size { newSize *= expansionFactor }
RECURSIVE doubleUntil(_, _)
doubleUntil(newSize, size) ==
    IF newSize < size
    THEN doubleUntil(newSize * expansionFactor, size)
    ELSE newSize

\* growSize without the cap at maxSize
growSize_noClamp(rb, size) ==
    doubleUntil(IF Len(rb.buf) = 0 THEN 1 ELSE Len(rb.buf), size)

\* growSize that grows to the requested size instead of doubling
growSize_exact(rb, size) ==
    LET newSize == IF Len(rb.buf) < size THEN size ELSE Len(rb.buf)
    IN  IF newSize >= rb.maxSize THEN rb.maxSize ELSE newSize

\* growSize that starts doubling from 1 instead of len(r.buf)
growSize_fromOne(rb, size) ==
    LET newSize == doubleUntil(1, size)
    IN  IF newSize >= rb.maxSize THEN rb.maxSize ELSE newSize

\* the length Grow asks makeSlice for
growSize(rb, size) ==
    LET start   == IF Len(rb.buf) = 0 THEN 1 ELSE Len(rb.buf)
        newSize == doubleUntil(start, size)
    IN  IF newSize >= rb.maxSize THEN rb.maxSize ELSE newSize

\* Grow that forgets copy(newBuf, r.buf)
Grow_noCopy(rb, size, ok) ==
    LET m == makeSlice(growSize(rb, size), ok)
    IN  IF m.err
        THEN [r |-> rb, err |-> TRUE]
        ELSE [r |-> [rb EXCEPT !.buf = m.b], err |-> FALSE]

\* Grow that assigns the result of makeSlice to r.buf before looking at err
Grow_dropsBuf(rb, size, ok) ==
    LET m == makeSlice(growSize(rb, size), ok)
    IN  IF m.err
        THEN [r |-> [rb EXCEPT !.buf = m.b], err |-> TRUE]
        ELSE [r |-> [rb EXCEPT !.buf = copyAt(m.b, 0, rb.buf)], err |-> FALSE]

\* Grow that copies only r.buf[:r.pos] into the new slice
Grow_copyToPos(rb, size, ok) ==
    LET m == makeSlice(growSize(rb, size), ok)
    IN  IF m.err
        THEN [r |-> rb, err |-> TRUE]
        ELSE [r |-> [rb EXCEPT !.buf = copyAt(m.b, 0, SliceTo(rb.buf, rb.pos))],
              err |-> FALSE]

Grow(rb, size, ok) ==
    LET m == makeSlice(growSize(rb, size), ok)
    IN  IF m.err
        THEN [r |-> rb, err |-> TRUE]
        ELSE [r |-> [rb EXCEPT !.buf = copyAt(m.b, 0, rb.buf)], err |-> FALSE]

\* writeRing when p is not longer than the buffer: write to the end of
\* r.buf, r.pos = 0, then the rest, if any, from index 0
writeRingWrap(rb, p) ==
    LET pLen    == Len(p)
        written == copyN(rb.buf, rb.pos, p)
        buf1    == copyAt(rb.buf, rb.pos, p)
        more    == pLen > written
    IN  [rb EXCEPT
            !.buf = IF more THEN copyAt(buf1, 0, SliceFrom(p, written)) ELSE buf1,
            !.pos = IF more THEN copyN(buf1, 0, SliceFrom(p, written)) ELSE 0,
            !.written = @ + pLen]

\* writeRing that counts only the retained bytes of an over-long input
writeRing_retained(rb, p) ==
    LET pLen   == Len(p)
        bufLen == Len(rb.buf)
    IN  IF pLen > bufLen
        THEN [r |-> [rb EXCEPT
                        !.buf = copyAt(rb.buf, 0, SliceFrom(p, pLen - bufLen)),
                        !.pos = 0,
                        !.written = @ + bufLen],
              n |-> pLen, err |-> FALSE]
        ELSE [r |-> writeRingWrap(rb, p), n |-> pLen, err |-> FALSE]

\* writeRing that returns the number of retained bytes of an over-long input
writeRing_partial(rb, p) ==
    LET pLen   == Len(p)
        bufLen == Len(rb.buf)
    IN  IF pLen > bufLen
        THEN [r |-> [rb EXCEPT
                        !.buf = copyAt(rb.buf, 0, SliceFrom(p, pLen - bufLen)),
                        !.pos = 0,
                        !.written = @ + pLen],
              n |-> bufLen, err |-> FALSE]
        ELSE [r |-> writeRingWrap(rb, p), n |-> pLen, err |-> FALSE]

\* writeRing that keeps the first bytes of an over-long input, not the last
writeRing_keepFirst(rb, p) ==
    LET pLen   == Len(p)
        bufLen == Len(rb.buf)
    IN  IF pLen > bufLen
        THEN [r |-> [rb EXCEPT
                        !.buf = copyAt(rb.buf, 0, p),
                        !.pos = 0,
                        !.written = @ + pLen],
              n |-> pLen, err |-> FALSE]
        ELSE [r |-> writeRingWrap(rb, p), n |-> pLen, err |-> FALSE]

writeRing(rb, p) ==
    LET pLen   == Len(p)
        bufLen == Len(rb.buf)
    IN  IF pLen > bufLen
        THEN [r |-> [rb EXCEPT
                        !.buf = copyAt(rb.buf, 0, SliceFrom(p, pLen - bufLen)),
                        !.pos = 0,
                        !.written = @ + pLen],
              n |-> pLen, err |-> FALSE]
        ELSE [r |-> writeRingWrap(rb, p), n |-> pLen, err |-> FALSE]

\* write that enters ring mode when the cursor reaches len(r.buf) instead
\* of r.maxSize
write_ringAtLen(rb, p, ok) ==
    LET pLen == Len(p)
        g    == IF Len(rb.buf) < rb.pos + pLen
                THEN Grow(rb, rb.pos + pLen, ok)
                ELSE [r |-> rb, err |-> FALSE]
        r1   == g.r
    IN  IF g.err
        THEN [r |-> r1, n |-> 0, err |-> TRUE]
        ELSE IF Len(r1.buf) >= r1.pos + pLen
             THEN LET n  == copyN(r1.buf, r1.pos, p)
                      r2 == [r1 EXCEPT !.buf = copyAt(r1.buf, r1.pos, p),
                                       !.written = @ + n,
                                       !.pos = @ + n]
                  IN  [r |-> IF r2.pos = Len(r2.buf)
                             THEN [r2 EXCEPT !.ringMode = TRUE, !.pos = 0]
                             ELSE r2,
                       n |-> n, err |-> FALSE]
             ELSE writeRing([r1 EXCEPT !.ringMode = TRUE], p)

\* write that enters ring mode only when the input does not fit, not when
\* the cursor reaches r.maxSize
write_overflowOnly(rb, p, ok) ==
    LET pLen == Len(p)
        g    == IF Len(rb.buf) < rb.pos + pLen
                THEN Grow(rb, rb.pos + pLen, ok)
                ELSE [r |-> rb, err |-> FALSE]
        r1   == g.r
    IN  IF g.err
        THEN [r |-> r1, n |-> 0, err |-> TRUE]
        ELSE IF Len(r1.buf) >= r1.pos + pLen
             THEN LET n  == copyN(r1.buf, r1.pos, p)
                  IN  [r |-> [r1 EXCEPT !.buf = copyAt(r1.buf, r1.pos, p),
                                        !.written = @ + n,
                                        !.pos = @ + n],
                       n |-> n, err |-> FALSE]
             ELSE writeRing([r1 EXCEPT !.ringMode = TRUE], p)

write(rb, p, ok) ==
    LET pLen == Len(p)
        g    == IF Len(rb.buf) < rb.pos + pLen
                THEN Grow(rb, rb.pos + pLen, ok)
                ELSE [r |-> rb, err |-> FALSE]
        r1   == g.r
    IN  IF g.err
        THEN [r |-> r1, n |-> 0, err |-> TRUE]
        ELSE IF Len(r1.buf) >= r1.pos + pLen
             THEN LET n  == copyN(r1.buf, r1.pos, p)
                      r2 == [r1 EXCEPT !.buf = copyAt(r1.buf, r1.pos, p),
                                       !.written = @ + n,
                                       !.pos = @ + n]
                  IN  [r |-> IF r2.pos = r2.maxSize
                             THEN [r2 EXCEPT !.ringMode = TRUE, !.pos = 0]
                             ELSE r2,
                       n |-> n, err |-> FALSE]
             ELSE writeRing([r1 EXCEPT !.ringMode = TRUE], p)

Write(rb, p, ok) ==
    IF rb.ringMode THEN writeRing(rb, p) ELSE write(rb, p, ok)

\* String() is string(r.Bytes()): the same bytes
String(rb) == Bytes(rb)

\* --------------------------------------------------------- inputs --------
RECURSIVE SeqsUpTo(_, _)
SeqsUpTo(S, n) ==
    IF n = 0 THEN {<<>>}
    ELSE LET shorter == SeqsUpTo(S, n - 1)
         IN  shorter \cup {Append(s, b) : s \in {t \in shorter : Len(t) = n - 1}, b \in S}

\* slices handed to Write: every length from empty to longer than maxSize
Inputs == SeqsUpTo(Alphabet, MaxSize + 1)

\* sizes handed to Grow, negative ones included
GrowSizes == (0 - 1)..(MaxSize + 2)

NoCall == [op |-> "New", pLen |-> 0, size |-> 0, ok |-> TRUE,
           n |-> 0, err |-> FALSE,
           tn |-> 0, terr |-> FALSE,
           pre |-> NewRingBuffer(0, 0)]

\* snap is a slice an earlier Bytes() call returned: orig are its bytes at
\* the return, cur its bytes now, shared whether it still shares the
\* backing array of r.buf (from index 0)
NoSnap == [taken |-> FALSE, shared |-> FALSE, orig |-> <<>>, cur |-> <<>>]

\* snap after a call that left the buffer as rb; replaced says that the
\* call stored a newly made slice in r.buf
snapAfter(rb, replaced) ==
    IF snap.taken /\ snap.shared
    THEN IF replaced
         THEN [snap EXCEPT !.shared = FALSE]
         ELSE [snap EXCEPT !.cur = SliceTo(rb.buf, Len(snap.orig))]
    ELSE snap

\* frame is the activation of a Grow(size) call that is executed statement
\* by statement: pc "loop" is the head of the for loop, "idle" no call;
\* iter is the number of iterations of the loop done so far, modulo 2
NoFrame == [pc |-> "idle", size |-> 0, newSize |-> 0, iter |-> 0]

\* ------------------------------------------------------- state machine ---
InitWith(initials, maxSizes) ==
    /\ initial0 \in initials
    /\ maxSize0 \in maxSizes
    /\ r = NewRingBuffer(initial0, maxSize0)
    /\ twin = r
    /\ hist = <<>>
    /\ last = [NoCall EXCEPT !.pre = r]
    /\ closed = FALSE
    /\ wasReset = FALSE
    /\ onlyOnes = (initial0 = 0)
    /\ i = 0
    /\ snap = NoSnap
    /\ frame = NoFrame

Init == InitWith(0..(MaxSize + 1), 0..MaxSize)

\* a Write meets the allocator only when write() calls Grow
allocates(rb, p) == ~rb.ringMode /\ Len(rb.buf) < rb.pos + Len(p)

\* one call r.Write(p); twin receives the same call
DoWrite(p, ok) ==
    LET res  == Write(r, p, ok)
        tres == Write(twin, p, ok)
    IN  /\ r' = res.r
        /\ twin' = tres.r
        /\ hist' = IF res.err THEN hist ELSE hist \o p
        /\ last' = [op |-> "Write", pLen |-> Len(p), size |-> 0, ok |-> ok,
                    n |-> res.n, err |-> res.err,
                    tn |-> tres.n, terr |-> tres.err, pre |-> r]
        /\ onlyOnes' = (onlyOnes /\ Len(p) = 1 /\ ~res.err)
        /\ snap' = snapAfter(res.r, allocates(r, p) /\ ~res.err)
        /\ UNCHANGED <<maxSize0, initial0, closed, wasReset>>

WriteOp ==
    \E p \in Inputs :
        /\ Len(hist) + Len(p) <= MaxWritten
        /\ \E ok \in IF allocates(r, p) THEN BOOLEAN ELSE {TRUE} :
              /\ DoWrite(p, ok)
              /\ UNCHANGED <<i, frame>>

\* one call r.Grow(size); twin receives the same call
DoGrow(size, ok) ==
    LET res  == Grow(r, size, ok)
        tres == Grow(twin, size, ok)
    IN  /\ r' = res.r
        /\ twin' = tres.r
        /\ last' = [op |-> "Grow", pLen |-> 0, size |-> size, ok |-> ok,
                    n |-> 0, err |-> res.err,
                    tn |-> 0, terr |-> tres.err, pre |-> r]
        /\ onlyOnes' = FALSE
        /\ snap' = snapAfter(res.r, ~res.err)
        /\ UNCHANGED <<hist, maxSize0, initial0, closed, wasReset>>

GrowOp ==
    \E size \in GrowSizes, ok \in BOOLEAN :
        /\ DoGrow(size, ok)
        /\ UNCHANGED <<i, frame>>

\* r.Reset(); twin becomes a fresh NewRingBuffer(r.Cap(), maxSize)
ResetOp ==
    /\ r' = Reset(r)
    /\ twin' = NewRingBuffer(Cap(r), r.maxSize)
    /\ hist' = <<>>
    /\ last' = [NoCall EXCEPT !.op = "Reset", !.pre = r]
    /\ wasReset' = TRUE
    /\ onlyOnes' = FALSE
    /\ UNCHANGED <<maxSize0, initial0, closed, i, snap, frame>>

CloseOp ==
    /\ r' = Close(r)
    /\ twin' = Close(twin)
    /\ hist' = <<>>
    /\ last' = [NoCall EXCEPT !.op = "Close", !.pre = r]
    /\ closed' = TRUE
    /\ onlyOnes' = FALSE
    /\ snap' = snapAfter(Close(r), TRUE)
    /\ UNCHANGED <<maxSize0, initial0, wasReset, i, frame>>

Next == WriteOp \/ GrowOp \/ ResetOp \/ CloseOp

Spec == Init /\ [][Next]_vars

\* ------------------------------------------- single-byte growth runs ---
InitGrowth == InitWith({0}, 1..MaxGrowthSize)

WriteOne ==
    /\ Len(hist) < MaxGrowthWrites
    /\ DoWrite(<<97>>, TRUE)
    /\ UNCHANGED <<i, frame>>

NextGrowth == WriteOne

SpecGrowth == InitGrowth /\ [][NextGrowth]_vars

\* ---------------------------------------------- growth-schedule runs ---
\* Grow and Write calls on buffers with larger maxima; the written bytes
\* are all the same, only the sizes matter here
InitSchedule == InitWith(0..MaxScheduleSize, 0..MaxScheduleSize)

GrowTo ==
    \E size \in (0 - 1)..(MaxScheduleSize + 2), ok \in BOOLEAN :
        /\ DoGrow(size, ok)
        /\ UNCHANGED <<i, frame>>

WriteRun ==
    \E n \in 0..(MaxScheduleSize + 1) :
      LET p == [k \in 1..n |-> 97]
      IN  \E ok \in IF allocates(r, p) THEN BOOLEAN ELSE {TRUE} :
            /\ Len(hist) + n <= MaxScheduleSize + 1
            /\ DoWrite(p, ok)
            /\ UNCHANGED <<i, frame>>

NextSchedule == GrowTo \/ WriteRun

SpecSchedule == InitSchedule /\ [][NextSchedule]_vars

\* ------------------------------------- runs that keep a Bytes() slice ---
InitAlias == InitWith(0..MaxAliasSize, 0..MaxAliasSize)

\* b := r.Bytes(), kept by the caller
BytesOp ==
    /\ ~snap.taken
    /\ snap' = [taken |-> TRUE, shared |-> BytesShares(r),
                orig |-> Bytes(r), cur |-> Bytes(r)]
    /\ last' = [NoCall EXCEPT !.op = "Bytes", !.pre = r]
    /\ UNCHANGED <<r, twin, hist, maxSize0, initial0, closed, wasReset,
                   onlyOnes, i, frame>>

WriteAlias ==
    \E p \in SeqsUpTo(Alphabet, MaxAliasSize + 1) :
      \E ok \in IF allocates(r, p) THEN BOOLEAN ELSE {TRUE} :
        /\ Len(hist) + Len(p) <= MaxAliasSize + 2
        /\ DoWrite(p, ok)
        /\ UNCHANGED <<i, frame>>

GrowAlias ==
    \E size \in 0..(MaxAliasSize + 1), ok \in BOOLEAN :
        /\ DoGrow(size, ok)
        /\ UNCHANGED <<i, frame>>

NextAlias == WriteAlias \/ GrowAlias \/ BytesOp

SpecAlias == InitAlias /\ [][NextAlias]_vars

\* ------------------------------------------------------ README example ---
\* fmt.Fprintf(r, "%d", n): the decimal digits of n as ASCII bytes, handed
\* to r.Write in one call
RECURSIVE Itoa(_)
Itoa(n) ==
    IF n < 10 THEN <<48 + n>> ELSE Append(Itoa(n \div 10), 48 + (n % 10))

InitReadme == InitWith({0}, 1..MaxReadmeSize)

\* one iteration of the loop: i counts the iterations done
ReadmeStep ==
    /\ i < ReadmeLoops
    /\ DoWrite(Itoa(i), TRUE)
    /\ i' = i + 1
    /\ UNCHANGED frame

NextReadme == ReadmeStep

SpecReadme == InitReadme /\ [][NextReadme]_vars

\* ------------------------------------- Grow executed statement by statement
\* the two's-complement int of IntBits bits: Go integer arithmetic wraps
\* around on overflow
MinInt == 0 - 2 ^ (IntBits - 1)
MaxInt == 2 ^ (IntBits - 1) - 1
wrapInt(x) == ((x - MinInt) % (2 ^ IntBits)) + MinInt

\* Grow from the cap at r.maxSize on, for the newSize the loop ended with
growFinish(rb, newSize, ok) ==
    LET n == IF newSize >= rb.maxSize THEN rb.maxSize ELSE newSize
        m == makeSlice(n, ok)
    IN  IF m.err
        THEN [r |-> rb, err |-> TRUE]
        ELSE [r |-> [rb EXCEPT !.buf = copyAt(m.b, 0, rb.buf)], err |-> FALSE]

InitGrowLoop == InitWith(0..MaxLoopSize, 0..MaxLoopSize)

\* r.Grow(size) is called with any int: newSize := len(r.buf), 1 when 0
GrowCall ==
    /\ frame.pc = "idle"
    /\ \E size \in MinInt..MaxInt :
          frame' = [pc |-> "loop", size |-> size,
                    newSize |-> IF Len(r.buf) = 0 THEN 1 ELSE Len(r.buf),
                    iter |-> 0]
    /\ UNCHANGED <<r, twin, hist, last, maxSize0, initial0, closed, wasReset,
                   onlyOnes, i, snap>>

\* one iteration of for newSize < size { newSize *= expansionFactor }
GrowDouble ==
    /\ frame.pc = "loop"
    /\ frame.newSize < frame.size
    /\ frame' = [frame EXCEPT !.newSize = wrapInt(@ * expansionFactor),
                              !.iter = 1 - @]
    /\ UNCHANGED <<r, twin, hist, last, maxSize0, initial0, closed, wasReset,
                   onlyOnes, i, snap>>

\* the loop condition is false: the rest of Grow runs and the call returns
GrowReturn ==
    /\ frame.pc = "loop"
    /\ ~(frame.newSize < frame.size)
    /\ \E ok \in BOOLEAN :
          LET res  == growFinish(r, frame.newSize, ok)
              tres == growFinish(twin, frame.newSize, ok)
          IN  /\ r' = res.r
              /\ twin' = tres.r
              /\ last' = [op |-> "Grow", pLen |-> 0, size |-> frame.size,
                          ok |-> ok, n |-> 0, err |-> res.err,
                          tn |-> 0, terr |-> tres.err, pre |-> r]
              /\ snap' = snapAfter(res.r, ~res.err)
    /\ frame' = NoFrame
    /\ onlyOnes' = FALSE
    /\ UNCHANGED <<hist, maxSize0, initial0, closed, wasReset, i>>

NextGrowLoop == GrowCall \/ GrowDouble \/ GrowReturn

\* a call that has started keeps executing
SpecGrowLoop ==
    /\ InitGrowLoop /\ [][NextGrowLoop]_vars
    /\ WF_vars(GrowDouble) /\ WF_vars(GrowReturn)

\* ===================================================== properties ======
\* the last n bytes of s (all of s when it is shorter)
LastN(s, n) == IF Len(s) <= n THEN s ELSE SubSeq(s, Len(s) - n + 1, Len(s))

\* C1: after any Write, Grow and Reset calls, in ring mode Bytes() has
\* length maxSize and is the last maxSize bytes of everything written since
\* construction or the last Reset, oldest first.
C1_WrappedContent ==
    (~closed /\ r.ringMode) =>
        /\ Len(Bytes(r)) = maxSize0
        /\ Bytes(r) = LastN(hist, maxSize0)

\* C2: after any Write, Grow and Reset calls, in dynamic-array mode
\* Bytes() is exactly the concatenation of everything written since
\* construction or the last Reset.
C2_DynamicContent ==
    (~closed /\ ~r.ringMode) => Bytes(r) = hist

\* C2 witness: after a Reset, two or more bytes written in dynamic-array
\* mode with a stale byte of the earlier content right behind the cursor
C2_Witness ==
    /\ ~closed /\ ~r.ringMode /\ wasReset
    /\ Len(hist) >= 2
    /\ r.pos < Len(r.buf)
    /\ r.buf[r.pos + 1] # 0

\* C3: Cap() never exceeds the maxSize given to NewRingBuffer, after every
\* Write, Grow, Reset and Close.
C3_CapCeiling == Cap(r) <= maxSize0

\* C3 witness: a successful Grow asked for more than maxSize from a smaller
\* buffer stopped at maxSize
C3_Witness ==
    /\ last.op = "Grow" /\ ~last.err
    /\ last.size > maxSize0
    /\ Cap(last.pre) < maxSize0
    /\ Cap(r) = maxSize0

\* C4: Written() is the sum of the sizes of the successful writes since
\* construction or the last Reset, in both modes; an input longer than
\* maxSize counts in full.
C4_WrittenIsSum ==
    ~closed => Written(r) = Len(hist)

\* C4 witness: a write longer than maxSize onto a non-empty buffer added
\* its full length
C4_Witness ==
    /\ ~closed /\ last.op = "Write" /\ ~last.err
    /\ maxSize0 >= 1
    /\ last.pLen > maxSize0
    /\ last.pre.written > 0
    /\ Written(r) = last.pre.written + last.pLen

\* C5: a Write whose allocation does not fail returns (len(p), nil),
\* whatever the mode and the length of p.
C5_WriteAcceptsAll ==
    (last.op = "Write" /\ last.ok) => (last.n = last.pLen /\ ~last.err)

\* C5 witness: a write longer than maxSize issued in dynamic-array mode
\* returned its full length
C5_Witness ==
    /\ last.op = "Write" /\ last.ok
    /\ ~last.pre.ringMode
    /\ last.pre.maxSize >= 1
    /\ last.pLen > last.pre.maxSize
    /\ last.n = last.pLen

\* the bytes of a string of decimal digits, given digit by digit
Digits(t) == [k \in 1..Len(t) |-> 48 + t[k]]

\* the columns of the README trace, one entry per printed row
ReadmeCap ==
    <<0, 1, 2, 4, 4, 8, 8, 8, 8, 16, 16, 16, 16, 16, 21, 21, 21, 21, 21, 21>>

ReadmeWritten ==
    <<0, 1, 2, 3, 4, 5, 6, 7, 8, 9, 10, 12, 14, 16, 18, 20, 22, 24, 26, 28>>

\* the content column: rows 1..16 are prefixes of "01234567891011121314",
\* rows 17..20 are the four 21-character strings
ReadmeStream == Digits(<<0, 1, 2, 3, 4, 5, 6, 7, 8, 9, 1, 0, 1, 1, 1, 2, 1, 3, 1, 4>>)

ReadmeWrapped ==
    <<Digits(<<1, 2, 3, 4, 5, 6, 7, 8, 9, 1, 0, 1, 1, 1, 2, 1, 3, 1, 4, 1, 5>>),
      Digits(<<3, 4, 5, 6, 7, 8, 9, 1, 0, 1, 1, 1, 2, 1, 3, 1, 4, 1, 5, 1, 6>>),
      Digits(<<5, 6, 7, 8, 9, 1, 0, 1, 1, 1, 2, 1, 3, 1, 4, 1, 5, 1, 6, 1, 7>>),
      Digits(<<7, 8, 9, 1, 0, 1, 1, 1, 2, 1, 3, 1, 4, 1, 5, 1, 6, 1, 7, 1, 8>>)>>

ReadmeContent(row) ==
    IF row <= 16 THEN SliceTo(ReadmeStream, ReadmeWritten[row])
    ELSE ReadmeWrapped[row - 16]

\* C6: in the README program (NewRingBuffer(0, 21), then Write of "0" ..
\* "19"), Cap(), Written() and String() printed before each write are the
\* 20 rows of the README trace.
C6_ReadmeTrace ==
    (initial0 = 0 /\ maxSize0 = ReadmeMaxSize /\ i < ReadmeLoops) =>
        /\ Cap(r) = ReadmeCap[i + 1]
        /\ Written(r) = ReadmeWritten[i + 1]
        /\ String(r) = ReadmeContent(i + 1)

\* the smallest power of two that is >= k
SmallestPow2(k) ==
    CHOOSE x \in {2 ^ j : j \in 0..k} :
        x >= k /\ \A y \in {2 ^ j : j \in 0..k} : y >= k => x <= y

\* C7: from NewRingBuffer(0, M), M >= 1, after the k-th consecutive
\* single-byte write Cap() is the smallest power of two >= k when that
\* power is below M, and M otherwise.
C7_DoublingGrowth ==
    (onlyOnes /\ maxSize0 >= 1 /\ Written(r) >= 1) =>
        Cap(r) = IF SmallestPow2(Written(r)) < maxSize0
                 THEN SmallestPow2(Written(r))
                 ELSE maxSize0

\* C7 witness: the fifth single-byte write snapped the capacity from 4 to
\* a maximum that is not a power of two
C7_Witness ==
    /\ onlyOnes /\ Written(r) = 5
    /\ maxSize0 \in 5..7
    /\ Cap(last.pre) = 4
    /\ Cap(r) = maxSize0

\* C8: with maxSize >= 1, writing an empty slice returns (0, nil) and
\* leaves Written(), Cap(), the cursor, the mode and Bytes() unchanged.
C8_EmptyWriteNoop ==
    (last.op = "Write" /\ last.pLen = 0 /\ last.pre.maxSize >= 1) =>
        /\ last.n = 0 /\ ~last.err
        /\ Written(r) = Written(last.pre)
        /\ Cap(r) = Cap(last.pre)
        /\ r.pos = last.pre.pos
        /\ r.ringMode = last.pre.ringMode
        /\ Bytes(r) = Bytes(last.pre)

\* C9: Reset() sets Written() to 0, the mode to dynamic-array and the
\* cursor to 0, so Bytes() is empty; Cap(), the bytes of the underlying
\* slice and maxSize stay as they were.
C9_ResetClears ==
    last.op = "Reset" =>
        /\ Written(r) = 0 /\ ~r.ringMode /\ r.pos = 0
        /\ Bytes(r) = <<>>
        /\ Cap(r) = Cap(last.pre)
        /\ r.buf = last.pre.buf
        /\ r.maxSize = last.pre.maxSize

\* C9 witness: Reset of a ring-mode buffer with a cursor in the middle and
\* written bytes in storage
C9_Witness ==
    /\ last.op = "Reset"
    /\ last.pre.ringMode /\ last.pre.pos > 0
    /\ \E k \in 1..Len(r.buf) : r.buf[k] # 0
    /\ Bytes(r) = <<>>

\* C10: after Reset() on a buffer of capacity c and maximum M, every
\* sequence of Write and Grow calls gives the same return values,
\* Written(), Cap(), mode and Bytes() as on a fresh NewRingBuffer(c, M)
\* (twin); stale bytes of the storage never show in Bytes().
C10_ResetLikeFresh ==
    (wasReset /\ ~closed) =>
        /\ Written(r) = Written(twin)
        /\ Cap(r) = Cap(twin)
        /\ r.ringMode = twin.ringMode
        /\ Bytes(r) = Bytes(twin)
        /\ last.op \in {"Write", "Grow"} =>
               (last.n = last.tn /\ last.err = last.terr)

\* C10 witness: after a Reset and further writes the storage still differs
\* from the fresh buffer's (stale bytes) while content is not empty
C10_Witness ==
    /\ wasReset /\ ~closed
    /\ last.op = "Write" /\ ~last.err
    /\ r.pos > 0
    /\ r.buf # twin.buf

\* C11: Close() returns nil and leaves no storage, cursor 0, written 0,
\* dynamic-array mode and maxSize 0, so Cap() and Written() are 0; a second
\* Close() gives the same state.
C11_CloseFinal ==
    last.op = "Close" =>
        /\ ~last.err
        /\ r = [buf |-> <<>>, pos |-> 0, ringMode |-> FALSE, written |-> 0,
                maxSize |-> 0]
        /\ Cap(r) = 0 /\ Written(r) = 0
        /\ Close(r) = r

\* C11 witness: Close of a ring-mode buffer holding written bytes
C11_Witness ==
    /\ last.op = "Close"
    /\ last.pre.ringMode /\ last.pre.written > 0 /\ Cap(last.pre) > 0
    /\ Cap(r) = 0

\* C12: NewRingBuffer(initialSize, maxSize) with both >= 0 gives
\* dynamic-array mode, cursor 0, Written() 0, empty Bytes(), maximum
\* maxSize and Cap() = min(initialSize, maxSize).
C12_Constructor ==
    last.op = "New" =>
        /\ ~r.ringMode /\ r.pos = 0 /\ Written(r) = 0
        /\ Bytes(r) = <<>>
        /\ r.maxSize = maxSize0
        /\ Cap(r) = IF initial0 <= maxSize0 THEN initial0 ELSE maxSize0
        /\ \A k \in 1..Len(r.buf) : r.buf[k] = 0

\* C12 witness: an initial size above the maximum was clamped
C12_Witness ==
    /\ last.op = "New"
    /\ initial0 > maxSize0 /\ maxSize0 >= 1
    /\ Cap(r) = maxSize0

C15_GrowKeepsContent ==
    (last.op = "Grow" /\ ~last.err) =>
        /\ Cap(r) >= Cap(last.pre)
        /\ Cap(r) >= Min(last.size, last.pre.maxSize)
        /\ Written(r) = Written(last.pre)
        /\ r.pos = last.pre.pos
        /\ r.ringMode = last.pre.ringMode
        /\ Bytes(r) = Bytes(last.pre)

\* C15 witness: a successful Grow of a ring-mode buffer whose cursor is in
\* the middle
C15_Witness ==
    /\ last.op = "Grow" /\ ~last.err
    /\ last.size > 0
    /\ last.pre.ringMode /\ last.pre.pos > 0
    /\ Bytes(r) = Bytes(last.pre)

\* C18: a successful Write of more than maxSize bytes, in either mode, ends
\* with Cap() = maxSize, storage holding the last maxSize input bytes from
\* index 0, cursor 0, ring mode, and Written() raised by the full length.
C18_OverlongWrite ==
    (last.op = "Write" /\ ~last.err /\ last.pLen > last.pre.maxSize) =>
        /\ Cap(r) = last.pre.maxSize
        /\ r.buf = LastN(LastN(hist, last.pLen), last.pre.maxSize)
        /\ r.pos = 0
        /\ r.ringMode
        /\ Written(r) = Written(last.pre) + last.pLen

\* C18 witness: an over-long write in dynamic-array mode onto a non-empty,
\* under-allocated buffer
C18_Witness ==
    /\ last.op = "Write" /\ ~last.err
    /\ last.pre.maxSize >= 2
    /\ last.pLen > last.pre.maxSize
    /\ ~last.pre.ringMode /\ last.pre.pos > 0
    /\ Cap(last.pre) < last.pre.maxSize
    /\ r.ringMode /\ Cap(r) = last.pre.maxSize

\* C20: after any Write, Grow and Reset calls, ring mode implies that the
\* allocated length equals maxSize.
C20_WrappedIsFull ==
    (~closed /\ r.ringMode) => Cap(r) = maxSize0

\* C20 witness: a write that overflowed an under-allocated buffer switched
\* to ring mode
C20_Witness ==
    /\ ~closed /\ last.op = "Write"
    /\ ~last.pre.ringMode /\ r.ringMode
    /\ Cap(last.pre) < maxSize0
    /\ last.pre.pos > 0
    /\ Cap(r) = maxSize0

\* C17: in ring mode with cursor c, a Write of n <= maxSize bytes puts
\* input byte k at storage index (c + k) mod maxSize, leaves the other
\* indexes unchanged and sets the cursor to (c + n) mod maxSize.
C17_RingWriteLayout ==
    (/\ last.op = "Write" /\ last.pre.ringMode
     /\ last.pre.maxSize >= 1 /\ last.pLen <= last.pre.maxSize) =>
        LET c == last.pre.pos
            M == last.pre.maxSize
            p == LastN(hist, last.pLen)
        IN  /\ Len(r.buf) = M
            /\ \A k \in 0..(last.pLen - 1) : r.buf[((c + k) % M) + 1] = p[k + 1]
            /\ \A j \in 0..(M - 1) :
                  (\A k \in 0..(last.pLen - 1) : (c + k) % M # j) =>
                      r.buf[j + 1] = last.pre.buf[j + 1]
            /\ r.pos = (c + last.pLen) % M

\* C19: in ring mode, a Write of n >= 1 bytes that ends exactly at the last
\* index of storage (cursor + n = maxSize) leaves the cursor at maxSize.
C19_CursorAtEnd ==
    (/\ last.op = "Write" /\ last.pre.ringMode
     /\ last.pLen >= 1
     /\ last.pre.pos + last.pLen = last.pre.maxSize) =>
        r.pos = last.pre.maxSize

\* the smallest L * 2^j (j >= 0) that is >= t, with L taken as 1 when 0,
\* replaced by M when it is >= M
ScheduledSize(L, t, M) ==
    LET base  == IF L = 0 THEN 1 ELSE L
        cands == {base * (2 ^ j) : j \in 0..(IF t > 0 THEN t ELSE 0)}
        x     == CHOOSE c \in cands :
                    c >= t /\ \A d \in cands : d >= t => c <= d
    IN  IF x >= M THEN M ELSE x

\* the last call was a successful Write that had to grow the buffer
GrewInWrite ==
    /\ last.op = "Write" /\ ~last.err
    /\ ~last.pre.ringMode
    /\ Cap(last.pre) < last.pre.pos + last.pLen

\* C16: growth with target t from allocated size L gives the smallest
\* L * 2^j >= t (L taken as 1 when 0), replaced by maxSize when that is
\* >= maxSize; from size 3 with maxSize 7 a 5-byte write gives 6, from
\* size 0 with maxSize 7 it gives 7.
C16_GrowthSchedule ==
    /\ (last.op = "Grow" /\ ~last.err) =>
          Cap(r) = ScheduledSize(Cap(last.pre), last.size, last.pre.maxSize)
    /\ GrewInWrite =>
          Cap(r) = ScheduledSize(Cap(last.pre), last.pre.pos + last.pLen,
                                 last.pre.maxSize)
    /\ (/\ GrewInWrite /\ last.pre.maxSize = 7
        /\ last.pre.pos = 0 /\ last.pLen = 5) =>
          /\ Cap(last.pre) = 3 => Cap(r) = 6
          /\ Cap(last.pre) = 0 => Cap(r) = 7

\* C16 witness: from size 3 with maxSize 7, a 5-byte write grew the buffer
\* to 6
C16_Witness ==
    /\ GrewInWrite
    /\ last.pre.maxSize = 7 /\ Cap(last.pre) = 3
    /\ last.pre.pos = 0 /\ last.pLen = 5
    /\ Cap(r) = 6

\* C13: the slice Bytes() returned is independent of the storage: a Write
\* made after Bytes() returned changes none of its bytes, in both modes and
\* for every cursor.
C13_BytesIndependent ==
    (snap.taken /\ last.op = "Write") => snap.cur = snap.orig

\* C21: in every state reached by Write, Grow, Reset and Close the cursor is
\* between 0 and len(r.buf) and not above maxSize, so r.buf[r.pos:] and
\* r.buf[:r.pos] of a following Write or Bytes() are in range.
C21_CursorInRange ==
    /\ 0 <= r.pos /\ r.pos <= Len(r.buf)
    /\ r.pos <= r.maxSize
    /\ Len(SliceTo(r.buf, r.pos)) = r.pos
    /\ Len(SliceFrom(r.buf, r.pos)) = Len(r.buf) - r.pos

\* C21 witness: a Write left the cursor at the very end of a non-empty r.buf
C21_Witness ==
    /\ last.op = "Write" /\ ~last.err
    /\ r.pos >= 1 /\ r.pos = Len(r.buf)

\* C22: with maxSize >= 1 the buffer is in ring mode exactly when the bytes
\* written since construction or the last Reset are at least maxSize, and
\* a call that found ring mode and left dynamic mode is a Reset or a Close,
\* never a Write or a Grow.
C22_WrappedIffFull ==
    /\ r.maxSize >= 1 => (r.ringMode <=> Written(r) >= r.maxSize)
    /\ (r.maxSize >= 1 /\ ~closed) => Written(r) = Len(hist)
    /\ (last.op \in {"Write", "Grow"} /\ last.pre.ringMode) => r.ringMode
    /\ (last.pre.ringMode /\ ~r.ringMode) => last.op \in {"Reset", "Close"}

\* C22 witness: a Write or Grow made in ring mode, after a Reset had turned
\* an earlier ring mode back into dynamic mode
C22_Witness ==
    /\ last.op \in {"Write", "Grow"} /\ ~last.err
    /\ last.pre.ringMode /\ r.ringMode
    /\ r.maxSize >= 2 /\ Written(r) > r.maxSize
    /\ wasReset /\ ~closed

\* C23: every call Grow(size) returns, for every int size, the negative
\* ones and those above half the largest int included.
C23_GrowTerminates == (frame.pc = "loop") ~> (frame.pc = "idle")

\* a call Grow(size) whose size the doubling reaches without overflow
\* returns what Grow computes in one step
GrowStepsAgree ==
    (last.op = "Grow" /\ last.size <= 2 ^ (IntBits - 2)) =>
        \E ok \in BOOLEAN :
            Grow(last.pre, last.size, ok) = [r |-> r, err |-> last.err]

====
